---- MODULE Spec2Model ----
(***************************************************************************)
(* Model of client.py: the ClientNode scenario orchestrator, the batch     *)
(* sequencer AWSIMScriptClient and the single-file path of __main__.       *)
(* The program is sequential and blocks on every RPC; one action of the    *)
(* model is the code that runs from one RPC answer to the next.  The       *)
(* answers of the remote side are the inputs, drawn with \E.  Where the    *)
(* code publishes before it blocks (send_request, loop_wait) the part up   *)
(* to the RPC and the handling of its answer are two actions.  The waits   *)
(* for a service to become available (wait_for_service loops) and the      *)
(* sleeps change no state and are not steps of the model.                  *)
(***************************************************************************)
EXTENDS Integers, Sequences, FiniteSets, TLC

\* ------------------------------------------------------------- bounds
NumFiles == 2        \* at most this many *.script files in the directory
MaxCount == 2        \* history counters of unbounded loops saturate here

\* ---------------------------------------------------- program constants
MOTION_STATE_UNKNOWN == 0
MOTION_STATE_STOPPED == 1
MOTION_STATE_STARTING == 2
MOTION_STATE_MOVING == 3

ROUTING_STATE_UNKNOWN == 0
ROUTING_STATE_UNSET == 1
ROUTING_STATE_SET == 2
ROUTING_STATE_ARRIVED == 3
ROUTING_STATE_CHANGING == 4

AWSIM_CLIENT_OP_STATE_STOPPED == 1
AWSIM_CLIENT_OP_STATE_RUNNING == 2
AWSIM_CLIENT_OP_STATE_AUTO_MODE == 3

\* AdsInternalStatus, ordered by its integer value (__lt__, __le__, ...)
UNINITIALIZED == 0
LOCALIZATION_SUCCEEDED == 1
GOAL_SET == 2
AUTONOMOUS_MODE_READY == 3
AUTONOMOUS_IN_PROGRESS == 4
GOAL_ARRIVED == 5

AdsInternalStatus == UNINITIALIZED..GOAL_ARRIVED
MotionStates == MOTION_STATE_UNKNOWN..MOTION_STATE_MOVING
RoutingStates == ROUTING_STATE_UNKNOWN..ROUTING_STATE_CHANGING

\* retry budget of re_localization and of remove_npcs
MaxRetry == 10

\* ------------------------------------------------------- remote answers
\* ExecutionState.Response
\* the answers the model draws: the code copies motion_state and tests
\* routing_state only against ROUTING_STATE_ARRIVED
MotionInputs == {MOTION_STATE_STOPPED, MOTION_STATE_MOVING}

RoutingInputs == {ROUTING_STATE_SET, ROUTING_STATE_ARRIVED}

ExecResponses ==
    [motion_state : MotionInputs,
     routing_state : RoutingInputs,
     is_autonomous_mode_available : BOOLEAN]

\* outside upd_execution_state its local `response` does not exist
NoResponse ==
    [motion_state |-> -1, routing_state |-> -1,
     is_autonomous_mode_available |-> FALSE]

\* DynamicControl.Response of the submit RPC.  The message of a successful
\* ack is a text; what matters to the code is how far it decodes:
\*   not_json         json.loads raises JSONDecodeError
\*   huge_int         JSON with an integer literal of more digits than
\*                    int() converts: json.loads raises a ValueError
\*                    that is no JSONDecodeError
\*   too_deep         JSON nested deeper than the interpreter recurses:
\*                    json.loads raises RecursionError
\*   wrong_type       JSON, but not an object (null, [], 123, "text"), or
\*                    initial_pose is not an object: subscripting it
\*                    raises TypeError (line 176 or 196)
\*   no_initial_pose  an object without the key initial_pose, or whose
\*                    initial_pose lacks pose or covariance (line 196, 197)
\*   no_goal          an object with a good initial_pose and no key goal
\*   valid            an object with initial_pose and goal
Messages ==
    {"valid", "not_json", "huge_int", "too_deep", "wrong_type",
     "no_initial_pose", "no_goal"}

SubmitAcks ==
    {[success |-> FALSE, message |-> "error"]}
        \cup {[success |-> TRUE, message |-> m] : m \in Messages}

\* MonitorRecordingState.Response.state
RecordingStates == {"IDLE", "RECORDING", "WRITING_DATA", "WRITTEN"}

\* --------------------------------------------------------- file names
\* a file name is a string, a sequence of character codes: the names
\* "a", "ab", "b", "ba" (one is a proper prefix of another, two differ in
\* their first character)
Names == {<<1>>, <<1, 2>>, <<2>>, <<2, 1>>}

\* what Path.glob may return: the files of the directory in any order
Listings ==
    UNION {{s \in [1..k -> Names] : \A i, j \in 1..k : i /= j => s[i] /= s[j]}
            : k \in 0..NumFiles}

\* Python's str.__lt__: lexicographic by code point, a proper prefix first
RECURSIVE str_lt(_, _)
str_lt(a, b) ==
    IF a = <<>> THEN b /= <<>>
    ELSE IF b = <<>> THEN FALSE
    ELSE IF Head(a) /= Head(b) THEN Head(a) < Head(b)
    ELSE str_lt(Tail(a), Tail(b))

RECURSIVE insort(_, _)
insort(s, x) ==
    IF s = <<>> THEN <<x>>
    ELSE IF str_lt(x, Head(s)) THEN <<x>> \o s
    ELSE <<Head(s)>> \o insort(Tail(s), x)

RECURSIVE sorted_from(_, _)
sorted_from(acc, s) ==
    IF s = <<>> THEN acc ELSE sorted_from(insort(acc, Head(s)), Tail(s))

unsorted_by_name(s) == s

\* sorted(files, key=lambda f: f.name): stable, ascending by name
sorted_by_name(s) == sorted_from(<<>>, s)

Sat(n) == IF n > MaxCount THEN MaxCount ELSE n

\* -------------------------------------------------------------- state
VARIABLES
    mode,               \* "batch": a directory was given; "single": a file
    wait_writing_trace, \* AWSIMScriptClient.wait_writing_trace
    ready_for_new_script, \* AWSIMScriptClient.ready_for_new_script
    listing,            \* the directory listing (batch) or the one file
    script_files,       \* execute(): the sorted list being iterated
    idx,                \* execute(): position of the for loop, 1-based
    pc,                 \* where the single thread of control stands
    node,               \* the ClientNode: its fields and what it has sent
    retry,              \* the local `retry` of the running retry loop
    ack,                \* send_request(): the submit RPC's response
    reloc_result,       \* what re_localization returned: "none"/"true"/"false"
    response,           \* upd_execution_state(): the response just handled
    exc,                \* the exception that ended the process, or "none"
    hist                \* observation of the current scenario (see NewHist)

vars ==
    <<mode, wait_writing_trace, ready_for_new_script, listing, script_files,
      idx, pc, node, retry, ack, reloc_result, response, exc, hist>>

\* ClientNode.__init__, with the outputs of its publishers:
\*   op_status  codes published on scenario_op_status, whole run
\*   writes     the values assigned to ads_internal_status by the last action
NewNode ==
    [ads_internal_status |-> UNINITIALIZED,
     ego_motion_state |-> MOTION_STATE_STOPPED,
     published_finish_signal |-> FALSE,
     op_status |-> <<>>,
     writes |-> <<>>]

\* What has happened since the current file's submit began (cleared when
\* the batch reset completes):
\*   events        submit / loc_ok / goal / engage / arrived, in order
\*   loc_resps     the answers of the localization RPC, in order
\*   finish_calls  calls of publish_finish_signal (saturating)
\*   stopped_pubs  STOPPED codes published
\*   exec_queries  execution-state queries issued (saturating)
\*   rec_queries   recording-state queries issued (saturating)
\*   avail_seen    a status response had is_autonomous_mode_available
\*   last_rec      the recording state the current loop_wait iteration
\*                 was answered, "none" while it has no answer
\*   submitted     files handed to send_request, whole run
\*   resets_done   batch resets completed, whole run
\* and of the last remove_npcs call (cleared by the next send_request):
\*   npc_resps         the answers of the removal RPC, in order
\*   npc_returned      remove_npcs has returned
\*   npc_error_logged  it logged "Failed to remove NPC vehicle(s)"
NewScenarioHist(h) ==
    [events |-> <<>>, loc_resps |-> <<>>, finish_calls |-> 0,
     stopped_pubs |-> 0, exec_queries |-> 0, rec_queries |-> 0,
     avail_seen |-> FALSE, last_rec |-> "none",
     submitted |-> h.submitted, resets_done |-> h.resets_done,
     npc_resps |-> h.npc_resps, npc_returned |-> h.npc_returned,
     npc_error_logged |-> h.npc_error_logged]

NewHist ==
    NewScenarioHist([submitted |-> <<>>, resets_done |-> 0,
                     npc_resps |-> <<>>, npc_returned |-> FALSE,
                     npc_error_logged |-> FALSE])

NoAck == [success |-> FALSE, message |-> "none"]

Init ==
    /\ mode \in {"batch", "single"}
    /\ wait_writing_trace \in BOOLEAN
    /\ ready_for_new_script = FALSE
    /\ IF mode = "batch"
         THEN listing \in Listings
         ELSE listing \in {<<n>> : n \in Names}
    /\ script_files = <<>>
    /\ idx = 0
    /\ pc = "main"
    /\ node = NewNode
    /\ retry = 0
    /\ ack = NoAck
    /\ reloc_result = "none"
    /\ response = NoResponse
    /\ exc = "none"
    /\ hist = NewHist

\* ------------------------------------------------ ClientNode operations
\* a record ctx = [node |-> ..., hist |-> ...] is threaded through the code

set_status(c, v) ==
    [c EXCEPT !.node.ads_internal_status = v,
              !.node.writes = Append(@, v)]

log_event(c, e) == [c EXCEPT !.hist.events = Append(@, e)]

publish_op_status(c, code) == [c EXCEPT !.node.op_status = Append(@, code)]

publish_start_signal(c) == publish_op_status(c, AWSIM_CLIENT_OP_STATE_RUNNING)

publish_in_auto_mode_signal_missing(c) == c

publish_in_auto_mode_signal(c) ==
    publish_op_status(c, AWSIM_CLIENT_OP_STATE_AUTO_MODE)

publish_finish_signal_unguarded(c) ==
    LET d == [c EXCEPT !.hist.finish_calls = Sat(@ + 1)]
        e == publish_op_status(d, AWSIM_CLIENT_OP_STATE_STOPPED)
    IN [e EXCEPT !.hist.stopped_pubs = @ + 1,
                 !.node.published_finish_signal = TRUE]

publish_finish_signal(c) ==
    LET d == [c EXCEPT !.hist.finish_calls = Sat(@ + 1)]
    IN IF ~ d.node.published_finish_signal
         THEN LET e == publish_op_status(d, AWSIM_CLIENT_OP_STATE_STOPPED)
              IN [e EXCEPT !.hist.stopped_pubs = @ + 1,
                           !.node.published_finish_signal = TRUE]
         ELSE d

set_goal(c) == log_event(c, "goal")

send_engage_cmd(c) ==
    set_status(log_event(c, "engage"), AUTONOMOUS_IN_PROGRESS)

\* upd_execution_state with rule 1 not guarded by the current status
upd_execution_state_unguarded(c, r) ==
    LET c0 == [c EXCEPT !.hist.exec_queries = Sat(@ + 1),
                        !.hist.avail_seen =
                            @ \/ r.is_autonomous_mode_available,
                        !.node.ego_motion_state = r.motion_state]
        c1 == IF r.is_autonomous_mode_available
                THEN publish_in_auto_mode_signal(
                       send_engage_cmd(set_status(c0, AUTONOMOUS_MODE_READY)))
                ELSE c0
    IN IF r.routing_state = ROUTING_STATE_ARRIVED
          /\ c1.node.ads_internal_status = AUTONOMOUS_IN_PROGRESS
         THEN set_status(log_event(c1, "arrived"), GOAL_ARRIVED)
         ELSE c1

\* upd_execution_state with rule 2 tested against AUTONOMOUS_MODE_READY
upd_execution_state_wrong_arrival(c, r) ==
    LET c0 == [c EXCEPT !.hist.exec_queries = Sat(@ + 1),
                        !.hist.avail_seen =
                            @ \/ r.is_autonomous_mode_available,
                        !.node.ego_motion_state = r.motion_state]
        c1 == IF r.is_autonomous_mode_available
                 /\ c0.node.ads_internal_status < AUTONOMOUS_MODE_READY
                THEN publish_in_auto_mode_signal(
                       send_engage_cmd(set_status(c0, AUTONOMOUS_MODE_READY)))
                ELSE c0
    IN IF r.routing_state = ROUTING_STATE_ARRIVED
          /\ c1.node.ads_internal_status = AUTONOMOUS_MODE_READY
         THEN set_status(log_event(c1, "arrived"), GOAL_ARRIVED)
         ELSE c1

\* upd_execution_state with rule 2 tested with >= AUTONOMOUS_IN_PROGRESS
upd_execution_state_rearrive(c, r) ==
    LET c0 == [c EXCEPT !.hist.exec_queries = Sat(@ + 1),
                        !.hist.avail_seen =
                            @ \/ r.is_autonomous_mode_available,
                        !.node.ego_motion_state = r.motion_state]
        c1 == IF r.is_autonomous_mode_available
                 /\ c0.node.ads_internal_status < AUTONOMOUS_MODE_READY
                THEN publish_in_auto_mode_signal(
                       send_engage_cmd(set_status(c0, AUTONOMOUS_MODE_READY)))
                ELSE c0
    IN IF r.routing_state = ROUTING_STATE_ARRIVED
          /\ c1.node.ads_internal_status >= AUTONOMOUS_IN_PROGRESS
         THEN set_status(log_event(c1, "arrived"), GOAL_ARRIVED)
         ELSE c1

\* upd_execution_state after query_execution_state returned r
upd_execution_state(c, r) ==
    LET c0 == [c EXCEPT !.hist.exec_queries = Sat(@ + 1),
                        !.hist.avail_seen =
                            @ \/ r.is_autonomous_mode_available,
                        !.node.ego_motion_state = r.motion_state]
        c1 == IF r.is_autonomous_mode_available
                 /\ c0.node.ads_internal_status < AUTONOMOUS_MODE_READY
                THEN publish_in_auto_mode_signal(
                       send_engage_cmd(set_status(c0, AUTONOMOUS_MODE_READY)))
                ELSE c0
    IN IF r.routing_state = ROUTING_STATE_ARRIVED
          /\ c1.node.ads_internal_status = AUTONOMOUS_IN_PROGRESS
         THEN set_status(log_event(c1, "arrived"), GOAL_ARRIVED)
         ELSE c1

re_localization_retry_wrong(r) == r <= MaxRetry

\* the loop condition of re_localization: while retry < 10
re_localization_retry(r) == r < MaxRetry

remove_npcs_retry_wrong(r) == r <= MaxRetry

\* the loop condition of remove_npcs: while retry < 10
remove_npcs_retry(r) == r < MaxRetry

\* the test after the loop of remove_npcs: if retry >= 10, log the error
remove_npcs_failed(r) == r >= MaxRetry

trace_flushed_wrong(rec) == rec /= "WRITING_DATA" \/ rec /= "RECORDING"

\* loop_wait: res.state is neither WRITING_DATA nor RECORDING
trace_flushed(rec) == rec /= "WRITING_DATA" /\ rec /= "RECORDING"

\* the context at the start of an action: nothing assigned yet
Ctx == [node |-> [node EXCEPT !.writes = <<>>], hist |-> hist]

Put(c) == node' = c.node /\ hist' = c.hist

\* after send_request returned: time.sleep(15), then the monitor loop
AfterSendRequest == IF mode = "batch" THEN "loop_wait" ELSE "loop_wait_single"

Raise(e) == pc' = "crashed" /\ exc' = e

\* ----------------------------------------------------------- actions
\* __main__ with a directory: AWSIMScriptClient(...).execute() up to the
\* first iteration of the for loop
execute ==
    /\ pc = "main" /\ mode = "batch"
    /\ script_files' = sorted_by_name(listing)
    /\ idx' = 1
    /\ pc' = IF script_files' = <<>> THEN "done" ELSE "send_request"
    /\ Put(Ctx)
    /\ response' = NoResponse
    /\ UNCHANGED <<mode, wait_writing_trace, ready_for_new_script, listing,
                   retry, ack, reloc_result, exc>>

\* __main__ with a file: node.send_request(full_path) is next
main_single_file ==
    /\ pc = "main" /\ mode = "single"
    /\ script_files' = listing
    /\ idx' = 1
    /\ pc' = "send_request"
    /\ Put(Ctx)
    /\ response' = NoResponse
    /\ UNCHANGED <<mode, wait_writing_trace, ready_for_new_script, listing,
                   retry, ack, reloc_result, exc>>

\* send_request up to the submit RPC: RUNNING and the script message are
\* published, the request is sent, and the process blocks for the answer
send_request_submit ==
    /\ pc = "send_request"
    /\ LET c0 == publish_start_signal(Ctx)
           c1 == log_event(
                   [c0 EXCEPT !.hist.submitted = Append(@, script_files[idx])],
                   "submit")
       IN Put([c1 EXCEPT !.hist.npc_resps = <<>>,
                         !.hist.npc_returned = FALSE,
                         !.hist.npc_error_logged = FALSE])
    /\ pc' = "submit_rpc"
    /\ response' = NoResponse
    /\ UNCHANGED <<mode, wait_writing_trace, ready_for_new_script, listing,
                   script_files, idx, retry, ack, reloc_result, exc>>

\* send_request going on to localization whatever response.status.success is
send_request_unchecked(a) ==
    /\ pc = "submit_rpc"
    /\ Put(Ctx)
    /\ ack' = a
    /\ retry' = 0
    /\ IF a.message = "not_json"
         THEN Raise("AttributeError")
         ELSE IF a.message = "huge_int"
           THEN Raise("ValueError")
         ELSE IF a.message = "too_deep"
           THEN Raise("RecursionError")
         ELSE IF a.message = "wrong_type"
           THEN Raise("TypeError")
         ELSE IF a.message = "no_initial_pose"
           THEN Raise("KeyError")
         ELSE pc' = "re_localization" /\ exc' = exc
    /\ response' = NoResponse
    /\ UNCHANGED <<mode, wait_writing_trace, ready_for_new_script, listing,
                   script_files, idx, reloc_result>>

\* send_request from the submit RPC's response a on
send_request(a) ==
    /\ pc = "submit_rpc"
    /\ Put(Ctx)
    /\ ack' = a
    /\ retry' = 0
    /\ IF ~ a.success
         THEN pc' = AfterSendRequest /\ exc' = exc
         ELSE IF a.message = "not_json"
           \* json.loads raises JSONDecodeError; its handler evaluates
           \* self.logger, which ClientNode does not have
           THEN Raise("AttributeError")
         ELSE IF a.message = "huge_int"
           \* json.loads raises; the except clause names only
           \* JSONDecodeError, which this ValueError is not
           THEN Raise("ValueError")
         ELSE IF a.message = "too_deep"
           THEN Raise("RecursionError")
         ELSE IF a.message = "wrong_type"
           \* initpose_and_goal['initial_pose'] on a value that is no dict
           THEN Raise("TypeError")
         ELSE IF a.message = "no_initial_pose"
           THEN Raise("KeyError")
         ELSE pc' = "re_localization" /\ exc' = exc
    /\ response' = NoResponse
    /\ UNCHANGED <<mode, wait_writing_trace, ready_for_new_script, listing,
                   script_files, idx, reloc_result>>

\* one attempt of re_localization: the localization RPC answered ok
re_localization(ok) ==
    /\ pc = "re_localization"
    /\ re_localization_retry(retry)
    /\ LET c == [Ctx EXCEPT !.hist.loc_resps = Append(@, ok)]
       IN Put(IF ok THEN log_event(c, "loc_ok") ELSE c)
    /\ IF ok
         THEN /\ reloc_result' = "true"
              /\ retry' = retry
              /\ pc' = "re_localization_returned"
         ELSE /\ retry' = retry + 1
              /\ IF re_localization_retry(retry')
                   THEN reloc_result' = reloc_result /\ pc' = pc
                   ELSE /\ reloc_result' = "false"
                        /\ pc' = "re_localization_returned"
    /\ response' = NoResponse
    /\ UNCHANGED <<mode, wait_writing_trace, ready_for_new_script, listing,
                   script_files, idx, ack, exc>>

\* send_request after re_localization returned
send_request_localized ==
    /\ pc = "re_localization_returned"
    /\ IF reloc_result = "true"
         THEN IF ack.message = "no_goal"
                THEN Put(Ctx) /\ Raise("KeyError")
                ELSE /\ Put(set_status(set_goal(Ctx), GOAL_SET))
                     /\ pc' = "loop" /\ exc' = exc
         ELSE Put(Ctx) /\ pc' = AfterSendRequest /\ exc' = exc
    /\ response' = NoResponse
    /\ UNCHANGED <<mode, wait_writing_trace, ready_for_new_script, listing,
                   script_files, idx, retry, ack, reloc_result>>

\* one iteration of ClientNode.loop: the status query answered r
loop(r) ==
    /\ pc = "loop"
    /\ LET c == upd_execution_state(Ctx, r)
       IN /\ Put(c)
          /\ pc' = IF c.node.ads_internal_status < AUTONOMOUS_IN_PROGRESS
                     THEN "loop" ELSE AfterSendRequest
    /\ response' = r
    /\ UNCHANGED <<mode, wait_writing_trace, ready_for_new_script, listing,
                   script_files, idx, retry, ack, reloc_result, exc>>

\* one iteration of AWSIMScriptClient.loop_wait up to its break or its
\* recording-state query: the status query answered r
loop_wait(r) ==
    /\ pc = "loop_wait"
    /\ ~ ready_for_new_script
    /\ LET c == upd_execution_state(
                   [Ctx EXCEPT !.hist.last_rec = "none"], r)
       IN IF c.node.ads_internal_status = GOAL_ARRIVED
            THEN LET d == publish_finish_signal(c)
                 IN IF ~ wait_writing_trace
                      THEN Put(d) /\ pc' = "clear_route"
                      ELSE /\ Put([d EXCEPT !.hist.rec_queries = Sat(@ + 1)])
                           /\ pc' = "recording_state"
            ELSE Put(c) /\ pc' = "loop_wait"
    /\ response' = r
    /\ UNCHANGED <<mode, wait_writing_trace, ready_for_new_script, listing,
                   script_files, idx, retry, ack, reloc_result, exc>>

\* the rest of that iteration: the recording-state query answered rec
loop_wait_recording(rec) ==
    /\ pc = "recording_state"
    /\ Put([Ctx EXCEPT !.hist.last_rec = rec])
    /\ pc' = IF trace_flushed(rec) THEN "clear_route" ELSE "loop_wait"
    /\ response' = NoResponse
    /\ UNCHANGED <<mode, wait_writing_trace, ready_for_new_script, listing,
                   script_files, idx, retry, ack, reloc_result, exc>>

\* one iteration of the module-level loop_wait(node)
loop_wait_single(r) ==
    /\ pc = "loop_wait_single"
    /\ LET c == upd_execution_state(Ctx, r)
       IN IF c.node.ads_internal_status = GOAL_ARRIVED
            THEN Put(publish_finish_signal(c)) /\ pc' = "clear_route"
            ELSE Put(c) /\ pc' = "loop_wait_single"
    /\ response' = r
    /\ UNCHANGED <<mode, wait_writing_trace, ready_for_new_script, listing,
                   script_files, idx, retry, ack, reloc_result, exc>>

\* reset() (batch) or the tail of loop_wait(node): clear_route, whose
\* answer is only logged, then remove_npcs up to its retry loop
clear_route(ok) ==
    /\ pc = "clear_route"
    /\ ready_for_new_script' = FALSE
    /\ retry' = 0
    /\ pc' = "remove_npcs"
    /\ Put([Ctx EXCEPT !.hist.last_rec = "none"])
    /\ response' = NoResponse
    /\ UNCHANGED <<mode, wait_writing_trace, listing, script_files, idx, ack,
                   reloc_result, exc>>

\* reset() that leaves published_finish_signal as it is
reset_finish_keeps_flag(c) ==
    [node |-> [set_status(c, UNINITIALIZED).node EXCEPT
                 !.ego_motion_state = MOTION_STATE_STOPPED],
     hist |-> NewScenarioHist([c.hist EXCEPT !.resets_done = @ + 1])]

\* reset() after remove_npcs returned, and the for loop's next iteration
reset_finish(c) ==
    [node |-> [set_status(c, UNINITIALIZED).node EXCEPT
                 !.ego_motion_state = MOTION_STATE_STOPPED,
                 !.published_finish_signal = FALSE],
     hist |-> NewScenarioHist([c.hist EXCEPT !.resets_done = @ + 1])]

\* one attempt of remove_npcs: the removal RPC answered ok
remove_npcs(ok) ==
    /\ pc = "remove_npcs"
    /\ remove_npcs_retry(retry)
    /\ LET r2 == IF ok THEN retry ELSE retry + 1
           finished == ok \/ ~ remove_npcs_retry(r2)
           c == [Ctx EXCEPT !.hist.npc_resps = Append(@, ok)]
           d == [c EXCEPT !.hist.npc_returned = TRUE,
                          !.hist.npc_error_logged = remove_npcs_failed(r2)]
       IN /\ retry' = r2
          /\ IF ~ finished
               THEN /\ Put(c) /\ pc' = pc /\ idx' = idx
                    /\ UNCHANGED <<ack, reloc_result, response>>
               ELSE IF mode = "batch"
                 THEN /\ Put(reset_finish(d))
                      /\ idx' = idx + 1
                      /\ pc' = IF idx' > Len(script_files)
                                 THEN "done" ELSE "send_request"
                      /\ ack' = NoAck
                      /\ reloc_result' = "none"
                      /\ response' = NoResponse
                 ELSE /\ Put(d) /\ pc' = "done" /\ idx' = idx
                      /\ UNCHANGED <<ack, reloc_result, response>>
    /\ UNCHANGED <<mode, wait_writing_trace, ready_for_new_script, listing,
                   script_files, exc>>

Next ==
    \/ execute
    \/ main_single_file
    \/ send_request_submit
    \/ \E a \in SubmitAcks : send_request(a)
    \/ \E ok \in BOOLEAN : re_localization(ok)
    \/ send_request_localized
    \/ \E r \in ExecResponses : loop(r)
    \/ \E r \in ExecResponses : loop_wait(r)
    \/ \E rec \in RecordingStates : loop_wait_recording(rec)
    \/ \E r \in ExecResponses : loop_wait_single(r)
    \/ \E ok \in BOOLEAN : clear_route(ok)
    \/ \E ok \in BOOLEAN : remove_npcs(ok)

Spec == Init /\ [][Next]_vars

\* every RPC is eventually answered: the program keeps taking steps
FairSpec == Spec /\ WF_vars(Next)

\* a poll of the monitor loop (loop_wait of the batch or of the single file)
MonitorPoll ==
    \/ \E r \in ExecResponses : loop_wait(r)
    \/ \E rec \in RecordingStates : loop_wait_recording(rec)
    \/ \E r \in ExecResponses : loop_wait_single(r)

\* the runs on the directories "a" .. and on the file "a": the course of a
\* scenario does not depend on the names of the files
OrderedNames == <<<<1>>, <<1, 2>>, <<2>>, <<2, 1>>>>

OrderedInit ==
    /\ Init
    /\ \E k \in 0..NumFiles : listing = SubSeq(OrderedNames, 1, k)

\* the monitor loop polls again after each sleep: its RPCs are answered
MonitorFairSpec == OrderedInit /\ [][Next]_vars /\ WF_vars(MonitorPoll)

TypeOK ==
    /\ node.ads_internal_status \in AdsInternalStatus
    /\ node.ego_motion_state \in MotionStates
    /\ retry \in 0..MaxRetry
    /\ pc \in {"main", "send_request", "submit_rpc", "re_localization",
               "re_localization_returned", "loop", "loop_wait",
               "recording_state", "loop_wait_single", "clear_route",
               "remove_npcs", "done",
               "crashed"}

\* ------------------------------------------------------------ claims
Range(s) == {s[i] : i \in 1..Len(s)}

IsPrefix(s, t) == Len(s) <= Len(t) /\ \A i \in 1..Len(s) : s[i] = t[i]

RECURSIVE NonDecreasingFrom(_, _)
NonDecreasingFrom(v, s) ==
    s = <<>> \/ (v <= Head(s) /\ NonDecreasingFrom(Head(s), Tail(s)))

\* the step that completes the batch reset (lines 372-374)
BatchResetStep == hist'.resets_done = hist.resets_done + 1

\* C1: every step either is the batch reset, which leaves the scenario
\* state UNINITIALIZED, or assigns to ads_internal_status only values that
\* do not go down: the state before the step and the values the step
\* assigns, in order, are non-decreasing.
C1_StatusMonotone ==
    [][IF BatchResetStep
         THEN node'.ads_internal_status = UNINITIALIZED
         ELSE /\ NonDecreasingFrom(node.ads_internal_status, node'.writes)
              /\ node'.ads_internal_status >= node.ads_internal_status]_vars

\* a later file of a batch has arrived: the state went up, down at the
\* reset, and up again
C1_Witness ==
    hist.resets_done >= 1 /\ node.ads_internal_status = GOAL_ARRIVED

\* C2: since the last reset, once publish_finish_signal has been called
\* (any number of times) exactly one STOPPED code has been published and
\* the flag is set; before the first call none has.
C2_FinishOnce ==
    /\ hist.finish_calls >= 1 =>
          hist.stopped_pubs = 1 /\ node.published_finish_signal
    /\ hist.finish_calls = 0 =>
          hist.stopped_pubs = 0 /\ ~ node.published_finish_signal

\* publish_finish_signal was called again during the trace-flush wait
C2_Witness ==
    /\ hist.finish_calls >= 2 /\ hist.stopped_pubs = 1
    /\ pc = "loop_wait" /\ wait_writing_trace

\* C3: a status poll that begins with the state below
\* AUTONOMOUS_IN_PROGRESS and whose response reports ARRIVED does not end
\* with the state GOAL_ARRIVED, whatever is_autonomous_mode_available is.
C3_ArrivedBeforeEngageIgnored ==
    [][(/\ response' /= NoResponse
        /\ node.ads_internal_status < AUTONOMOUS_IN_PROGRESS
        /\ response'.routing_state = ROUTING_STATE_ARRIVED)
       => node'.ads_internal_status /= GOAL_ARRIVED]_vars

\* C4: re_localization returns true exactly at the first successful
\* answer, after k <= 10 calls of which the first k-1 failed, and returns
\* false exactly after 10 failed calls; until the scenario's reset no
\* further localization call is made.
C4_ReLocalizationCalls ==
    LET rs == hist.loc_resps
    IN /\ reloc_result = "true" =>
            /\ Len(rs) \in 1..10
            /\ rs[Len(rs)]
            /\ \A i \in 1..(Len(rs) - 1) : ~ rs[i]
       /\ reloc_result = "false" =>
            Len(rs) = 10 /\ \A i \in 1..10 : ~ rs[i]
       /\ reloc_result = "none" =>
            Len(rs) < 10 /\ \A i \in 1..Len(rs) : ~ rs[i]

\* all ten attempts failed and re_localization returned false
C4_Witness ==
    reloc_result = "false" /\ Len(hist.loc_resps) = 10

\* C5: the events of one scenario occur only in the order submit,
\* successful localization, goal broadcast, engage broadcast, arrival.
ScenarioOrder == <<"submit", "loc_ok", "goal", "engage", "arrived">>

C5_ScenarioOrder == IsPrefix(hist.events, ScenarioOrder)

\* the current file of the batch failed: its submit was rejected, its ack
\* did not decode, or its localization was exhausted
FileFailed ==
    /\ mode = "batch"
    /\ \/ ack.message = "error"
       \/ exc /= "none"
       \/ reloc_result = "false"

\* C6: the batch run is never aborted, and a file that failed is
\* eventually reset, after which the next file (if any) is submitted.
C6_FailureIsolated ==
    /\ [](pc /= "crashed")
    /\ \A i \in 1..NumFiles :
          (FileFailed /\ idx = i) ~>
              (hist.resets_done >= i
                 /\ (Len(hist.submitted) > i \/ pc = "done"))

\* C7: in a batch run no execution-state query is issued for a file whose
\* submit was rejected or whose ack did not decode.
C7_NoMonitorAfterFailedSubmit ==
    (mode = "batch" /\ (ack.message = "error" \/ exc /= "none"))
        => hist.exec_queries = 0

\* C8: the files submitted so far are in ascending order of name, are
\* files of the directory, and no file of the directory smaller than a
\* submitted one is left out; when execute returns every file has been
\* submitted; a file is submitted only after the reset of the one before.
C8_AscendingOnce ==
    mode = "batch" =>
      LET sub == hist.submitted
      IN /\ \A i, j \in 1..Len(sub) : i < j => str_lt(sub[i], sub[j])
         /\ Range(sub) \subseteq Range(listing)
         /\ \A n \in Range(listing) \ Range(sub) :
               \A m \in Range(sub) : str_lt(m, n)
         /\ pc = "done" => Range(sub) = Range(listing)
         /\ hist.resets_done \in {Len(sub) - 1, Len(sub)} \cap Nat
         /\ pc = "send_request" => hist.resets_done = Len(sub)
         /\ pc = "submit_rpc" => hist.resets_done = Len(sub) - 1

\* a directory listed out of order has been run to the end
C8_Witness ==
    /\ mode = "batch" /\ pc = "done"
    /\ Len(hist.submitted) >= 2
    /\ listing /= script_files

\* C9: when re_localization returns true the state is
\* LOCALIZATION_SUCCEEDED, and when it returns false the state is as it was
\* on entry, UNINITIALIZED.
C9_LocalizationSucceededState ==
    pc = "re_localization_returned" =>
        /\ reloc_result = "true" =>
              node.ads_internal_status = LOCALIZATION_SUCCEEDED
        /\ reloc_result = "false" =>
              node.ads_internal_status = UNINITIALIZED

\* C10: after localization failed all 10 attempts, until the file's reset
\* no goal and no engage command is broadcast and the state stays
\* UNINITIALIZED.
C10_ExhaustedLocalizationInert ==
    reloc_result = "false" =>
        /\ \A i \in 1..Len(hist.events) : hist.events[i] \notin {"goal", "engage"}
        /\ node.ads_internal_status = UNINITIALIZED

CountOf(s, x) == Cardinality({i \in 1..Len(s) : s[i] = x})

\* the submit ack reports success but its message does not decode into
\* initial_pose and goal
MalformedAck == ack.success /\ ack.message /= "valid"

\* C11: after a successful ack with a malformed message no exception has
\* left send_request, and that submit issues no localization RPC, no goal
\* and no engage broadcast and leaves the scenario state unchanged.
C11_DecodeFailureReturns ==
    MalformedAck =>
        /\ exc = "none" /\ pc /= "crashed"
        /\ hist.loc_resps = <<>>
        /\ \A i \in 1..Len(hist.events) :
              hist.events[i] \notin {"loc_ok", "goal"}
        /\ pc \in {"re_localization", "re_localization_returned"} =>
              node.ads_internal_status = UNINITIALIZED

\* the scenario number i runs nominally: valid ack, localization succeeded
Nominal(i) ==
    /\ Len(hist.submitted) = i
    /\ ack = [success |-> TRUE, message |-> "valid"]
    /\ reloc_result = "true"

\* a poll of scenario i reports ARRIVED, and it or an earlier poll of the
\* scenario reported autonomous mode available
ArrivedAfterAvailable(i) ==
    /\ Nominal(i)
    /\ hist.avail_seen
    /\ response.routing_state = ROUTING_STATE_ARRIVED

NominalFinished(i) ==
    /\ Nominal(i)
    /\ node.ads_internal_status = GOAL_ARRIVED
    /\ hist.events = ScenarioOrder
    /\ hist.stopped_pubs = 1
    /\ node.published_finish_signal

\* C12: in a nominal scenario, if a poll reports autonomous mode available
\* and that poll or a later one reports ARRIVED, the run eventually is in
\* GOAL_ARRIVED having broadcast goal before engage and having published
\* STOPPED exactly once.
C12_NominalLiveness ==
    \A i \in 1..NumFiles :
        ArrivedAfterAvailable(i) ~> NominalFinished(i)

\* a second file of a batch has finished nominally
C12_Witness == NominalFinished(2) /\ hist.finish_calls = 1

\* C13: the step of send_request that handles a rejected ack returns and
\* changes neither the scenario state, the motion state nor the finish
\* flag; after it, as long as nothing has polled, no localization RPC, no
\* goal and no execution-state query has been issued.
C13_RejectedSubmitFrame ==
    /\ [][(pc = "submit_rpc" /\ ~ ack'.success) =>
            /\ pc' = AfterSendRequest
            /\ node'.ads_internal_status = node.ads_internal_status
            /\ node'.ego_motion_state = node.ego_motion_state
            /\ node'.published_finish_signal = node.published_finish_signal
            /\ hist'.exec_queries = 0
            /\ hist'.events = <<"submit">>]_vars
    /\ [](ack.message = "error" =>
            /\ hist.loc_resps = <<>>
            /\ reloc_result = "none"
            /\ \A i \in 1..Len(hist.events) :
                  hist.events[i] \notin {"loc_ok", "goal"})

\* send_request has just returned from a rejected submit
C13_Witness ==
    /\ ack.message = "error"
    /\ pc \in {"loop_wait", "loop_wait_single"}
    /\ hist.exec_queries = 0

\* C14: remove_npcs calls the removal RPC until the first success, at
\* most 10 times; the error is logged exactly when all 10 calls failed;
\* it returns either way, and the batch reset then leaves the state
\* UNINITIALIZED, the motion state STOPPED and the finish flag cleared.
C14_RemoveNpcs ==
    LET rs == hist.npc_resps
    IN /\ ~ hist.npc_returned =>
            /\ Len(rs) < 10 /\ \A i \in 1..Len(rs) : ~ rs[i]
            /\ ~ hist.npc_error_logged
       /\ hist.npc_returned =>
            /\ Len(rs) \in 1..10
            /\ \A i \in 1..(Len(rs) - 1) : ~ rs[i]
            /\ rs[Len(rs)] \/ Len(rs) = 10
            /\ hist.npc_error_logged <=> (Len(rs) = 10 /\ ~ rs[10])
            /\ pc \in {"send_request", "done"}
            /\ mode = "batch" =>
                  /\ node.ads_internal_status = UNINITIALIZED
                  /\ node.ego_motion_state = MOTION_STATE_STOPPED
                  /\ ~ node.published_finish_signal

\* all ten removal calls failed and the batch went on
C14_Witness ==
    /\ hist.npc_returned /\ hist.npc_error_logged
    /\ Len(hist.npc_resps) = 10
    /\ mode = "batch" /\ pc = "send_request"

\* the three fields reset() assigns
ResetFields(n) ==
    <<n.ads_internal_status, n.ego_motion_state, n.published_finish_signal>>

CleanFields == <<UNINITIALIZED, MOTION_STATE_STOPPED, FALSE>>

\* C15: every submit of a batch starts from the clean state, so does the
\* state when execute returns after a reset, and in every reachable state
\* the final assignments of reset applied twice give what they give once.
C15_ResetClean ==
    /\ (mode = "batch" /\ pc \in {"send_request", "submit_rpc", "done"}) =>
          ResetFields(node) = CleanFields
    /\ LET once == reset_finish(Ctx)
       IN /\ ResetFields(once.node) = CleanFields
          /\ ResetFields(reset_finish(once).node) = ResetFields(once.node)

\* a reset has completed after an arrival and the next file is up
C15_Witness ==
    /\ mode = "batch" /\ pc = "send_request"
    /\ hist.resets_done >= 1
    /\ hist.npc_returned /\ hist.npc_error_logged

\* C16: without waiting for the trace, the monitor loop ends at the poll
\* that leaves the state GOAL_ARRIVED and never asks the recording state;
\* with waiting, the recording state is asked only after arrival, and the
\* loop ends only at an iteration that was answered a recording state
\* other than WRITING_DATA and RECORDING, and goes on polling when the
\* answer is one of those two.
C16_MonitorLoopExit ==
    /\ [](~ wait_writing_trace =>
            hist.rec_queries = 0 /\ hist.last_rec = "none")
    /\ [](pc = "recording_state" =>
            /\ wait_writing_trace
            /\ node.ads_internal_status = GOAL_ARRIVED
            /\ hist.rec_queries >= 1)
    /\ [][pc = "loop_wait" =>
            pc' = IF node'.ads_internal_status /= GOAL_ARRIVED
                    THEN "loop_wait"
                    ELSE IF wait_writing_trace
                      THEN "recording_state" ELSE "clear_route"]_vars
    /\ [][pc = "recording_state" =>
            /\ pc' = "clear_route" =>
                  hist'.last_rec \in {"IDLE", "WRITTEN"}
            /\ hist'.last_rec \in {"WRITING_DATA", "RECORDING"} =>
                  pc' = "loop_wait"
            /\ pc' \in {"loop_wait", "clear_route"}]_vars

\* after arrival the recorder was still writing and polling went on
C16_Witness ==
    /\ pc = "loop_wait" /\ wait_writing_trace
    /\ node.ads_internal_status = GOAL_ARRIVED
    /\ hist.last_rec = "WRITING_DATA"
    /\ hist.rec_queries >= 2

\* C17: since the last reset at most one engage command has been
\* broadcast, and once it has the state is at least
\* AUTONOMOUS_IN_PROGRESS; AUTO_MODE has been published once per engage.
C17_EngageOnce ==
    /\ CountOf(hist.events, "engage") <= 1
    /\ CountOf(hist.events, "engage") = 1 =>
          node.ads_internal_status >= AUTONOMOUS_IN_PROGRESS
    /\ CountOf(node.op_status, AWSIM_CLIENT_OP_STATE_AUTO_MODE)
          = hist.resets_done + CountOf(hist.events, "engage")

\* a poll after the engagement reported autonomous mode available again
C17_Witness ==
    /\ CountOf(hist.events, "engage") = 1
    /\ response.is_autonomous_mode_available
    /\ node.writes = <<>>
    /\ hist.exec_queries >= 2

StatusCycle ==
    <<AWSIM_CLIENT_OP_STATE_RUNNING, AWSIM_CLIENT_OP_STATE_AUTO_MODE,
      AWSIM_CLIENT_OP_STATE_STOPPED>>

\* C18: in a batch run the codes published are a prefix of (RUNNING,
\* AUTO_MODE, STOPPED) repeated, one triple per file; STOPPED of the
\* current file is out only in GOAL_ARRIVED, and a reset runs only after
\* the STOPPED of its file.
C18_StatusCycle ==
    mode = "batch" =>
      LET os == node.op_status
      IN /\ \A i \in 1..Len(os) : os[i] = StatusCycle[((i - 1) % 3) + 1]
         /\ Len(os) \in (3 * hist.resets_done)..(3 * hist.resets_done + 3)
         /\ hist.stopped_pubs = 1 =>
               /\ node.ads_internal_status = GOAL_ARRIVED
               /\ Len(os) = 3 * hist.resets_done + 3
         /\ pc \in {"clear_route", "remove_npcs"} => hist.stopped_pubs = 1
         /\ pc \in {"send_request", "done"} => Len(os) = 3 * hist.resets_done
         /\ pc = "submit_rpc" => Len(os) = 3 * hist.resets_done + 1

\* the second file of a batch has published its STOPPED
C18_Witness ==
    mode = "batch" /\ Len(node.op_status) = 6

\* C19: in GOAL_ARRIVED upd_execution_state changes, for every response,
\* only the cached motion state; and no step but the batch reset leaves
\* GOAL_ARRIVED, broadcasts an engage command or publishes RUNNING or
\* AUTO_MODE from there.
C19_ArrivedAbsorbing ==
    /\ [](node.ads_internal_status = GOAL_ARRIVED =>
            \A r \in ExecResponses :
              LET c == upd_execution_state(Ctx, r)
              IN /\ c.node = [Ctx.node EXCEPT
                                !.ego_motion_state = r.motion_state]
                 /\ c.hist = [hist EXCEPT
                                !.exec_queries = Sat(@ + 1),
                                !.avail_seen =
                                    @ \/ r.is_autonomous_mode_available])
    /\ [][(node.ads_internal_status = GOAL_ARRIVED /\ ~ BatchResetStep) =>
            /\ node'.ads_internal_status = GOAL_ARRIVED
            /\ node'.writes = <<>>
            /\ hist'.events = hist.events
            /\ node'.op_status \in
                 {node.op_status,
                  Append(node.op_status, AWSIM_CLIENT_OP_STATE_STOPPED)}]_vars

\* polled again in GOAL_ARRIVED during the trace-flush wait, with a
\* response that would fire both rules in an earlier state
C19_Witness ==
    /\ node.ads_internal_status = GOAL_ARRIVED
    /\ pc = "recording_state" /\ hist.finish_calls >= 2
    /\ response.is_autonomous_mode_available
    /\ response.routing_state = ROUTING_STATE_ARRIVED
    /\ node.ego_motion_state = MOTION_STATE_MOVING
====
